---- MODULE Spec2Model ----
(***************************************************************************)
(* A state-machine model of retsnoop.c: the per-event post-processing      *)
(* pipeline (filter_fstack, filter_kstack, the two-pointer merge in        *)
(* handle_event, print_item) and the poll loop of main.                    *)
(*                                                                         *)
(* Representation choices                                                  *)
(*  - A C string is a tuple of one-character strings; the terminating NUL  *)
(*    is the position just past the tuple.                                 *)
(*  - A 64-bit long is a record [hi, lo]: the upper and the lower 32-bit   *)
(*    word, each read as a signed 32-bit two's-complement number.  Its     *)
(*    value is hi * 2^32 + (lo mod 2^32).                                  *)
(*  - Kernel addresses and latencies are small naturals (only offsets from *)
(*    a symbol's entry and the order of addresses matter to the code).     *)
(*  - The static buffers fstack[] and kstack[] of handle_event are state:  *)
(*    they keep their contents from one event to the next.                 *)
(*  - The events are printed without symbolization (ctx->a2l == NULL);    *)
(*    the trimming of a symbolized source path (detect_linux_src_loc) is   *)
(*    modelled on its own, on paths addr2line can report.                  *)
(***************************************************************************)
EXTENDS Integers, Sequences, FiniteSets, TLC

VARIABLES
    pc,         \* position of the main thread
    exiting,    \* the volatile flag set by sig_handler
    err,        \* main's err
    verbose,    \* env.verbose
    delivered,  \* number of records the ring buffer has handed to handle_event
    s,          \* the record handle_event is working on (data)
    fstack,     \* static struct fstack_item fstack[MAX_FSTACK_DEPTH]
    kstack,     \* static struct kstack_item kstack[MAX_KSTACK_DEPTH]
    fstack_n,   \* handle_event's locals
    kstack_n,
    i,
    j,
    out,        \* the lines printed for the current event, in order
    done_out,   \* TRUE once the event's closing "\n\n" has been printed
    diag,       \* TRUE once a FAILURE DURING FILTERING diagnostic was printed for the event
    oob,        \* TRUE once a store went past the end of fstack[] or kstack[]
    saved_read, \* TRUE if filter_fstack read the saved_* arrays for the current event
    consumed,   \* records consumed so far by the ring_buffer__poll call in progress
    line,       \* resp->line: the file:line text addr2line gave for a frame
    line_off    \* print_item's line_off

vars == <<pc, exiting, err, verbose, delivered, s, fstack, kstack, fstack_n,
          kstack_n, i, j, out, done_out, diag, oob, saved_read, consumed,
          line, line_off>>

(***************************************************************************)
(* Bounds of the model.  MAX_FSTACK_DEPTH and MAX_KSTACK_DEPTH are the     *)
(* capacities of fstack[] and kstack[] and of the record's arrays; the     *)
(* program takes them from retsnoop.h, the model keeps them small.         *)
(***************************************************************************)
MaxEvents == 2
MaxTrace == 4
MAX_FSTACK_DEPTH == 3
MAX_KSTACK_DEPTH == 5
\* the longest source path, in pieces
MaxPieces == 3

(***************************************************************************)
(* Constants of retsnoop.c                                                 *)
(***************************************************************************)
FTRACE_OFFSET == 5
ERR_NAMES_SIZE == 531
EINTR == 4

FIdx == 0 .. (MAX_FSTACK_DEPTH - 1)
KIdx == 0 .. (MAX_KSTACK_DEPTH - 1)

(***************************************************************************)
(* C strings                                                               *)
(***************************************************************************)
NUL == "NUL"
NullStr == <<>>

\* name[k], k counted from 0 as in C; name[strlen(name)] is the NUL.  No
\* name of the symbol table below is short enough for the code to index
\* past its NUL.
CharAt(name, k) == IF k < Len(name) THEN name[k + 1] ELSE NUL

\* strncmp(a, b, n) == 0: the first n characters agree, a string that ends
\* earlier being followed by NULs
StrnEq(a, b, n) == \A k \in 0 .. (n - 1) : CharAt(a, k) = CharAt(b, k)

\* strcmp(a, b) == 0
StrEq(a, b) == a = b

Digits == {"0", "1", "2", "3", "4", "5", "6", "7", "8", "9"}
isdigit(c) == c \in Digits
isxdigit(c) == c \in Digits \cup {"a", "b", "c", "d", "e", "f", "A", "B", "C", "D", "E", "F"}

(***************************************************************************)
(* 64-bit longs as [hi, lo]                                                *)
(***************************************************************************)
L(h, l) == [hi |-> h, lo |-> l]
LZero == L(0, 0)
LIsZero(x) == x.hi = 0 /\ x.lo = 0
LIsNeg(x) == x.hi < 0

\* (long)(int)x: keep the low word, fill the high word with its sign
SignExt(x) == L(IF x.lo < 0 THEN -1 ELSE 0, x.lo)

\* |x| when it is below the size of err_names[], otherwise ERR_NAMES_SIZE
\* (err_to_str negates a negative err and then compares with ARRAY_SIZE)
AbsBelowTable(x) ==
    IF x.hi = 0 /\ x.lo >= 0 /\ x.lo < ERR_NAMES_SIZE THEN x.lo
    ELSE IF x.hi = -1 /\ x.lo < 0 /\ x.lo > -ERR_NAMES_SIZE THEN -x.lo
    ELSE ERR_NAMES_SIZE

(***************************************************************************)
(* The function table of the attacher (mass_attacher__func, func_flags[])  *)
(* and the kernel symbol table (ksyms__map_addr): the collaborators'       *)
(* tables handle_event reads.  Ids are dense indexes.                      *)
(***************************************************************************)
N_sys_bpf == <<"s", "y", "s", "_", "b", "p", "f">>
N_kfree == <<"k", "f", "r", "e", "e">>
N_fget == <<"f", "g", "e", "t">>
N_map_alloc == <<"b", "p", "f", "_", "m", "a", "p", "_", "a", "l", "l", "o", "c",
                 "_", "p", "e", "r", "c", "p", "u">>
N_tramp == <<"b", "p", "f", "_", "t", "r", "a", "m", "p", "o", "l", "i", "n", "e", "_",
             "6", "4", "4", "2", "4", "9", "4", "9", "4", "9", "_", "0">>
N_prog == <<"b", "p", "f", "_", "p", "r", "o", "g", "_", "6", "d", "e", "a", "d", "b",
            "e", "e", "f", "_", "f", "e", "x", "i", "t", "1">>
N_raw_tp == <<"b", "p", "f", "_", "g", "e", "t", "_", "s", "t", "a", "c", "k", "_",
              "r", "a", "w", "_", "t", "p">>

FUNC_CANT_FAIL == "FUNC_CANT_FAIL"
FUNC_NEEDS_SIGN_EXT == "FUNC_NEEDS_SIGN_EXT"
FUNC_RET_PTR == "FUNC_RET_PTR"
FUNC_IS_ENTRY == "FUNC_IS_ENTRY"

\* id -> name (mass_attacher__func(att, id)->name)
FuncNames == <<N_sys_bpf, N_kfree, N_fget, N_map_alloc>>
\* id -> flags (skel->bss->func_flags[id]), as main computes them with
\* func_flags(): int -> sign extension, void -> cannot fail, pointer
FuncFlags == <<{FUNC_NEEDS_SIGN_EXT, FUNC_IS_ENTRY}, {FUNC_CANT_FAIL}, {FUNC_RET_PTR},
               {FUNC_NEEDS_SIGN_EXT}>>
FuncIds == 0 .. (Len(FuncNames) - 1)
func_name(id) == FuncNames[id + 1]
func_flags(id) == FuncFlags[id + 1]

NoSym == [null |-> TRUE]
Sym(n, a) == [name |-> n, addr |-> a]
Ksyms == {Sym(N_sys_bpf, 1000), Sym(N_kfree, 2000), Sym(N_fget, 3000),
          Sym(N_map_alloc, 4000), Sym(N_tramp, 5000), Sym(N_prog, 6000),
          Sym(N_raw_tp, 7000)}
SymAddr(n) == (CHOOSE k \in Ksyms : k.name = n).addr

\* ksyms__map_addr: the symbol with the greatest entry address <= addr, or NULL
ksyms__map_addr(addr) ==
    LET below == {k \in Ksyms : k.addr <= addr}
    IN  IF below = {} THEN NoSym
        ELSE CHOOSE k \in below : \A m \in below : m.addr <= k.addr

(***************************************************************************)
(* struct fstack_item, struct kstack_item; static storage starts zeroed    *)
(***************************************************************************)
ZeroFitem == [name |-> NullStr, res |-> LZero, lat |-> 0, finished |-> FALSE, stitched |-> FALSE]
ZeroKitem == [ksym |-> NoSym, addr |-> 0, filtered |-> FALSE]
NoItem == [null |-> TRUE]

(***************************************************************************)
(* filter_fstack                                                           *)
(***************************************************************************)
\* the result conversion of lines 312-315 and 334-337
ConvertRes(id, raw) == IF FUNC_NEEDS_SIGN_EXT \in func_flags(id) THEN SignExt(raw) ELSE raw

\* One iteration of the first loop (lines 298-316) on item r[cnt], cnt = i.
\* finished is stored only when i >= depth; lat is stored last, from func_lat.
PrimaryItem(old, rec, pos) ==
    [name |-> func_name(rec.func_ids[pos]),
     stitched |-> FALSE,
     finished |-> IF pos >= rec.depth THEN TRUE ELSE old.finished,
     res |-> ConvertRes(rec.func_ids[pos], rec.func_res[pos]),
     lat |-> rec.func_lat[pos]]

\* (a variant that reads the primary arrays where the saved ones are meant)
StitchedItem_primary(rec, pos) ==
    [name |-> func_name(rec.func_ids[pos]),
     stitched |-> TRUE,
     finished |-> TRUE,
     lat |-> rec.func_lat[pos],
     res |-> ConvertRes(rec.func_ids[pos], rec.func_res[pos])]

\* One iteration of the second loop (lines 324-337), reading saved position pos
StitchedItem(rec, pos) ==
    [name |-> func_name(rec.saved_ids[pos]),
     stitched |-> TRUE,
     finished |-> TRUE,
     lat |-> rec.saved_lat[pos],
     res |-> ConvertRes(rec.saved_ids[pos], rec.saved_res[pos])]

\* (a variant with the seam off by one)
IsStitched_offbyone(rec) == ~(rec.max_depth + 2 # rec.saved_depth)

\* the stitching test of line 320: TRUE when the saved segment is appended
IsStitched(rec) == ~(rec.max_depth + 1 # rec.saved_depth)

\* for (i = 0, cnt = 0; i < s->max_depth; i++, cnt++): the stores that land
\* inside r[]; a store at cnt >= MAX_FSTACK_DEPTH is past the end of the array
RECURSIVE PrimaryLoop(_, _, _)
PrimaryLoop(r, rec, pos) ==
    IF pos < rec.max_depth /\ pos < MAX_FSTACK_DEPTH
    THEN PrimaryLoop([r EXCEPT ![pos] = PrimaryItem(r[pos], rec, pos)], rec, pos + 1)
    ELSE r

\* for (i = s->saved_depth - 1; i < s->saved_max_depth; i++, cnt++)
RECURSIVE StitchLoop(_, _, _, _)
StitchLoop(r, rec, pos, cnt) ==
    IF pos < rec.saved_max_depth /\ cnt < MAX_FSTACK_DEPTH /\ pos < MAX_FSTACK_DEPTH
    THEN StitchLoop([r EXCEPT ![cnt] = StitchedItem(rec, pos)], rec, pos + 1, cnt + 1)
    ELSE r

\* number of iterations of the second loop
StitchCount(rec) ==
    IF rec.saved_depth - 1 < rec.saved_max_depth
    THEN rec.saved_max_depth - (rec.saved_depth - 1) ELSE 0

\* filter_fstack(ctx, r, s): the array after the call, the returned count,
\* whether a store went past the end of r[] (or a load past the end of the
\* record's arrays, which happens at the same iterations), and whether the
\* saved_* arrays were read
filter_fstack(r, rec) ==
    LET r1 == PrimaryLoop(r, rec, 0)
        st == IsStitched(rec)
        cnt == IF st THEN rec.max_depth + StitchCount(rec) ELSE rec.max_depth
    IN  [r |-> IF st THEN StitchLoop(r1, rec, rec.saved_depth - 1, rec.max_depth) ELSE r1,
         cnt |-> cnt,
         oob |-> cnt > MAX_FSTACK_DEPTH,
         saved_read |-> st /\ StitchCount(rec) > 0]

(***************************************************************************)
(* filter_kstack                                                           *)
(***************************************************************************)
bpf_tramp_pfx == <<"b", "p", "f", "_", "t", "r", "a", "m", "p", "o", "l", "i", "n", "e", "_">>
bpf_prog_pfx == <<"b", "p", "f", "_", "p", "r", "o", "g", "_">>
\* sizeof of a char array holding the string: its length and the NUL
SizeOf(str) == Len(str) + 1

\* (a variant that tests the character in front of the prefix's end, so that
\* no trampoline name passes)
is_bpf_tramp_wrongchar(item) ==
    /\ item.ksym # NoSym
    /\ StrnEq(item.ksym.name, bpf_tramp_pfx, SizeOf(bpf_tramp_pfx) - 1)
    /\ isdigit(CharAt(item.ksym.name, SizeOf(bpf_tramp_pfx) - 2))

is_bpf_tramp(item) ==
    /\ item.ksym # NoSym
    /\ StrnEq(item.ksym.name, bpf_tramp_pfx, SizeOf(bpf_tramp_pfx) - 1)
    /\ isdigit(CharAt(item.ksym.name, SizeOf(bpf_tramp_pfx)))

is_bpf_prog(item) ==
    /\ item.ksym # NoSym
    /\ StrnEq(item.ksym.name, bpf_prog_pfx, SizeOf(bpf_prog_pfx) - 1)
    /\ isxdigit(CharAt(item.ksym.name, SizeOf(bpf_prog_pfx)))

\* C's integer division truncates toward zero
CDiv(a, b) == IF a >= 0 THEN a \div b ELSE -((-a) \div b)

\* (a variant that does not reverse the trace)
RECURSIVE LookupLoop_noreverse(_, _, _, _)
LookupLoop_noreverse(r, rec, n, idx) ==
    IF idx < n
    THEN LookupLoop_noreverse([r EXCEPT ![idx] =
                                  [addr |-> rec.kstack[idx], filtered |-> FALSE,
                                   ksym |-> ksyms__map_addr(rec.kstack[idx])]],
                              rec, n, idx + 1)
    ELSE r

\* the first loop (lines 381-389): r[n - i - 1] gets address kstack[i]
RECURSIVE LookupLoop(_, _, _, _)
LookupLoop(r, rec, n, idx) ==
    IF idx < n
    THEN LookupLoop([r EXCEPT ![n - idx - 1] =
                        [addr |-> rec.kstack[idx], filtered |-> FALSE,
                         ksym |-> ksyms__map_addr(rec.kstack[idx])]],
                    rec, n, idx + 1)
    ELSE r

\* (a variant that does not ask for a trampoline between the two frames)
IsBridgeHead_notramp(r, n, idx) ==
    /\ idx + 2 < n
    /\ r[idx].ksym = r[idx + 2].ksym
    /\ r[idx].addr - r[idx].ksym.addr = FTRACE_OFFSET

\* the condition of line 421-423 on the frames at idx, idx + 1, idx + 2
IsBridgeHead(r, n, idx) ==
    /\ idx + 2 < n
    /\ is_bpf_tramp(r[idx + 1])
    /\ r[idx].ksym = r[idx + 2].ksym
    /\ r[idx].addr - r[idx].ksym.addr = FTRACE_OFFSET

\* the condition of line 442-443
IsInstrumentation(item) ==
    \/ is_bpf_tramp(item)
    \/ is_bpf_prog(item)
    \/ StrEq(item.ksym.name, N_raw_tp)

\* the second loop (lines 394-456): read cursor idx, write cursor p, in place
RECURSIVE RepairLoop(_, _, _, _, _)
RepairLoop(r, n, p, idx, vb) ==
    IF ~(idx < n) THEN [r |-> r, p |-> p]
    ELSE
      LET r0 == [r EXCEPT ![p] = r[idx]]                 \* *item = r[i]
      IN  IF r0[p].ksym = NoSym
          THEN RepairLoop(r0, n, p + 1, idx + 1, vb)
          ELSE IF IsBridgeHead(r0, n, idx)
          THEN IF vb
               THEN RepairLoop([r0 EXCEPT ![p].filtered = TRUE], n, p + 1, idx + 1, vb)
               ELSE RepairLoop([r0 EXCEPT ![p] = r0[idx + 2]], n, p, idx + 1, vb)
          ELSE IF IsInstrumentation(r0[idx])
          THEN IF vb
               THEN RepairLoop([r0 EXCEPT ![p].filtered = TRUE], n, p + 1, idx + 1, vb)
               ELSE IF idx + 1 < n
                    THEN RepairLoop([r0 EXCEPT ![p] = r0[idx + 1]], n, p, idx + 1, vb)
                    ELSE RepairLoop(r0, n, p, idx + 1, vb)
          ELSE RepairLoop(r0, n, p + 1, idx + 1, vb)

RepairPass(r, n, vb) == RepairLoop(r, n, 0, 0, vb)

\* filter_kstack(ctx, r, s): the array after the call and the returned count.
\* With n > MAX_KSTACK_DEPTH the first store, r[n - 1], is past the end of r[]
\* (and the loads of s->kstack[] run past the record): nothing of the call
\* is modelled then but the fact.
filter_kstack(r, rec, vb) ==
    LET n == CDiv(rec.kstack_sz, 8)
    IN  IF n > MAX_KSTACK_DEPTH
        THEN [r |-> r, p |-> 0, oob |-> TRUE]
        ELSE LET res == RepairPass(LookupLoop(r, rec, n, 0), n, vb)
             IN  [r |-> res.r, p |-> res.p, oob |-> FALSE]

(***************************************************************************)
(* err_to_str and print_item                                               *)
(***************************************************************************)
\* the indexes of err_names[] that hold a name; every other slot is NULL
ErrNamed == ((1 .. 133) \ {41, 58}) \cup ((512 .. 530) \ {520})

\* err_to_str(err): the name is represented by its index in err_names[]
\* (the table maps distinct indexes to distinct names); 0 stands for NULL
err_to_str(x) ==
    LET a == AbsBelowTable(x)
    IN  IF a < ERR_NAMES_SIZE /\ a \in ErrNamed THEN a ELSE 0

\* the latency/result columns of lines 558-578
ResultText(fitem) ==
    IF fitem # NoItem /\ ~fitem.finished
    THEN [kind |-> "pending"]                                 \* "..." "[...]"
    ELSE IF fitem # NoItem
    THEN IF LIsZero(fitem.res)
         THEN [kind |-> "null", lat_us |-> CDiv(fitem.lat, 1000)]        \* "[NULL]"
         ELSE IF err_to_str(fitem.res) # 0
         THEN [kind |-> "errname", lat_us |-> CDiv(fitem.lat, 1000),
               name |-> err_to_str(fitem.res)]                       \* "[-%s]"
         ELSE [kind |-> "number", lat_us |-> CDiv(fitem.lat, 1000),
               value |-> fitem.res]                                  \* "[%ld]"
    ELSE [kind |-> "blank"]

\* (a variant that never prints the missing-kernel-frame marker)
print_item_nomarker(fitem, kitem, vb) ==
    [nokitem |-> FALSE,
     star |-> fitem # NoItem /\ fitem.stitched,
     result |-> ResultText(fitem),
     addr |-> [kind |-> "none"],
     fname |-> IF fitem # NoItem THEN fitem.name ELSE NullStr,
     off |-> -1,
     fitem |-> fitem,
     kitem |-> kitem]

\* print_item(ctx, fitem, kitem) without symbolization (ctx->a2l == NULL):
\* the printed line, field by field
print_item(fitem, kitem, vb) ==
    [nokitem |-> kitem = NoItem,                                     \* '!' or ' '
     star |-> fitem # NoItem /\ fitem.stitched,                      \* '*' or ' '
     result |-> ResultText(fitem),
     addr |-> IF ~vb THEN [kind |-> "none"]
              ELSE IF kitem # NoItem /\ kitem.filtered THEN [kind |-> "filtered", a |-> kitem.addr]
              ELSE IF kitem # NoItem THEN [kind |-> "plain", a |-> kitem.addr]
              ELSE [kind |-> "blank"],
     fname |-> IF kitem # NoItem /\ kitem.ksym # NoSym THEN kitem.ksym.name
               ELSE IF fitem # NoItem THEN fitem.name
               ELSE NullStr,
     off |-> IF kitem # NoItem /\ kitem.ksym # NoSym THEN kitem.addr - kitem.ksym.addr ELSE -1,
     fitem |-> fitem,
     kitem |-> kitem]

(***************************************************************************)
(* detect_linux_src_loc                                                    *)
(***************************************************************************)
\* static const char *linux_dirs[], in the order of the table ("lib/" is
\* listed twice)
linux_dirs ==
    <<<<"a", "r", "c", "h", "/">>,
      <<"k", "e", "r", "n", "e", "l", "/">>,
      <<"i", "n", "c", "l", "u", "d", "e", "/">>,
      <<"b", "l", "o", "c", "k", "/">>,
      <<"f", "s", "/">>,
      <<"n", "e", "t", "/">>,
      <<"d", "r", "i", "v", "e", "r", "s", "/">>,
      <<"m", "m", "/">>,
      <<"i", "p", "c", "/">>,
      <<"s", "e", "c", "u", "r", "i", "t", "y", "/">>,
      <<"l", "i", "b", "/">>,
      <<"c", "r", "y", "p", "t", "o", "/">>,
      <<"c", "e", "r", "t", "s", "/">>,
      <<"i", "n", "i", "t", "/">>,
      <<"l", "i", "b", "/">>,
      <<"s", "c", "r", "i", "p", "t", "s", "/">>,
      <<"s", "o", "u", "n", "d", "/">>,
      <<"t", "o", "o", "l", "s", "/">>,
      <<"u", "s", "r", "/">>,
      <<"v", "i", "r", "t", "/">>>>

\* strstr(haystack, needle): the offset of the first occurrence of needle,
\* -1 for NULL
RECURSIVE strstr_from(_, _, _)
strstr_from(haystack, needle, k) ==
    IF k + Len(needle) > Len(haystack) THEN -1
    ELSE IF SubSeq(haystack, k + 1, k + Len(needle)) = needle THEN k
    ELSE strstr_from(haystack, needle, k + 1)
strstr(haystack, needle) == strstr_from(haystack, needle, 0)

\* the for loop of lines 521-525, from index idx on, and the return 0
RECURSIVE DirLoop(_, _)
DirLoop(path, idx) ==
    IF ~(idx < Len(linux_dirs)) THEN 0
    ELSE LET p == strstr(path, linux_dirs[idx + 1])
         IN  IF p # -1 THEN p ELSE DirLoop(path, idx + 1)

detect_linux_src_loc(path) == DirLoop(path, 0)

\* pieces of the paths addr2line reports: build-host prefixes, kernel
\* source directories, a directory whose name ends in one, a file and line
P_build == <<"/", "b", "u", "i", "l", "d", "/">>
P_linux == <<"l", "i", "n", "u", "x", "-", "5", "/">>
P_drivers == <<"d", "r", "i", "v", "e", "r", "s", "/">>
P_net == <<"n", "e", "t", "/">>
P_fs == <<"f", "s", "/">>
P_kernel == <<"k", "e", "r", "n", "e", "l", "/">>
P_inet == <<"i", "n", "e", "t", "/">>
P_file == <<"x", ".", "c", ":", "7">>
PathPieces == {P_build, P_linux, P_drivers, P_net, P_fs, P_kernel, P_inet, P_file}

\* the paths of at most n pieces
RECURSIVE PathsUpTo(_)
PathsUpTo(n) ==
    IF n = 0 THEN {<<>>}
    ELSE LET shorter == PathsUpTo(n - 1)
         IN  shorter \cup {q \o a : q \in shorter, a \in PathPieces}
Paths == PathsUpTo(MaxPieces)

(***************************************************************************)
(* Records (struct call_stack) the ring buffer can deliver                 *)
(***************************************************************************)
NoRecord == [is_err |-> FALSE]

\* cyclic fill of an array of the given index set from a pattern
Fill(idx, pattern) == [k \in idx |-> pattern[(k % Len(pattern)) + 1]]

\* trace is the raw kernel stack as captured, innermost frame first
MkRec(e, d, md, sd, smd, ids, raw, sids, sraw, trace) ==
    [is_err |-> e, depth |-> d, max_depth |-> md,
     saved_depth |-> sd, saved_max_depth |-> smd,
     func_ids |-> Fill(FIdx, ids),
     func_res |-> Fill(FIdx, raw),
     func_lat |-> [k \in FIdx |-> 1500 * (k + 1)],
     saved_ids |-> Fill(FIdx, sids),
     saved_res |-> Fill(FIdx, sraw),
     saved_lat |-> [k \in FIdx |-> 1500 * (k + 11)],
     kstack |-> [k \in KIdx |-> IF k < Len(trace) THEN trace[k + 1] ELSE 0],
     kstack_sz |-> 8 * Len(trace)]

\* raw 64-bit result containers: 0, -12, 0x00000000fffffff4,
\* 0x00001234ffffffea, 12
RawVals == {LZero, L(-1, -12), L(0, -12), L(4660, -22), L(0, 12)}

\* addresses: unresolved (below every symbol), sys_bpf+0xa,
\* bpf_map_alloc_percpu+0x5, bpf_map_alloc_percpu+0x3f,
\* bpf_trampoline_6442494949_0+0x6d, bpf_prog_...+0x1, bpf_get_stack_raw_tp+0x2
A_unres == SymAddr(N_sys_bpf) - 1
A_sys == SymAddr(N_sys_bpf) + 10
A_kfree == SymAddr(N_kfree) + 3
A_alloc5 == SymAddr(N_map_alloc) + FTRACE_OFFSET
A_alloc3f == SymAddr(N_map_alloc) + 63
A_tramp == SymAddr(N_tramp) + 109
A_prog == SymAddr(N_prog) + 1
A_rawtp == SymAddr(N_raw_tp) + 2
KAddrs == {A_unres, A_sys, A_alloc5, A_alloc3f, A_tramp, A_prog, A_rawtp}

RECURSIVE SeqsUpTo(_, _)
SeqsUpTo(S, n) ==
    IF n = 0 THEN {<<>>}
    ELSE LET shorter == SeqsUpTo(S, n - 1)
         IN  shorter \cup {Append(q, a) : q \in {x \in shorter : Len(x) = n - 1}, a \in S}

\* a record fits the buffers: no index of filter_fstack or filter_kstack
\* leaves fstack[], kstack[] or the record's arrays
FitsFstack(rec) ==
    /\ rec.max_depth <= MAX_FSTACK_DEPTH
    /\ (rec.max_depth + 1 = rec.saved_depth => rec.saved_max_depth <= MAX_FSTACK_DEPTH)
FitsKstack(rec) == rec.kstack_sz <= 8 * MAX_KSTACK_DEPTH + 7
Fits(rec) == FitsFstack(rec) /\ FitsKstack(rec)

\* the raw trace of a call chain sys_bpf -> kfree -> (unresolved), as captured
FTrace == <<A_unres, A_kfree, A_sys>>
\* sys_bpf -> bpf_map_alloc_percpu through the fexit trampoline, as captured
BridgeTrace == <<A_rawtp, A_alloc3f, A_tramp, A_alloc5, A_sys>>

\* logical-stack records: every depth relation, every result container
FRecords ==
    {rec \in {MkRec(TRUE, d, md, sd, smd, ids, <<raw>>, <<1, 0, 3>>, <<raw>>, FTrace) :
                 d \in 0 .. MAX_FSTACK_DEPTH, md \in 0 .. MAX_FSTACK_DEPTH,
                 sd \in 0 .. (MAX_FSTACK_DEPTH + 1), smd \in 0 .. (MAX_FSTACK_DEPTH + 1),
                 ids \in {<<0, 1, 2>>, <<1, 3, 0>>}, raw \in RawVals} :
        Fits(rec)}

\* kernel-stack records: every trace of at most MaxTrace addresses, and two
\* records whose kstack_sz is an error code or not a multiple of 8
KRecords ==
    LET base(tr) == MkRec(TRUE, 0, 2, 0, 0, <<0, 3>>, <<L(-1, -12)>>, <<0>>, <<LZero>>, tr)
    IN  {base(tr) : tr \in SeqsUpTo(KAddrs, MaxTrace)}
        \cup {[base(<<A_sys>>) EXCEPT !.kstack_sz = -14],
              [base(<<A_alloc3f, A_sys>>) EXCEPT !.kstack_sz = 12]}

\* the records of the whole-program specification: well-formed records
Records ==
    {MkRec(FALSE, 0, 1, 0, 0, <<0>>, <<LZero>>, <<0>>, <<LZero>>, <<A_sys>>)}
    \cup {MkRec(TRUE, d, md, IF st THEN md + 1 ELSE 0, IF st THEN md + 1 ELSE 0,
                <<0, 3, 1>>, <<L(-1, -12), LZero>>, <<1, 3, 2>>, <<L(0, 12)>>, BridgeTrace) :
             d \in 0 .. 1, md \in 1 .. 2, st \in BOOLEAN}

\* records as arbitrary bit patterns: the well-formed ones and records whose
\* max_depth, stitched range or kstack_sz exceeds the capacities
RawRecords ==
    LET r(md, sd, smd, tr) ==
            MkRec(TRUE, 0, md, sd, smd, <<0, 3, 1>>, <<L(-1, -12)>>, <<1>>, <<LZero>>, tr)
    IN  {r(1, 0, 0, FTrace),
         r(MAX_FSTACK_DEPTH, 0, 0, FTrace),
         r(MAX_FSTACK_DEPTH + 1, 0, 0, FTrace),
         r(MAX_FSTACK_DEPTH, MAX_FSTACK_DEPTH + 1, MAX_FSTACK_DEPTH + 2, FTrace),
         [r(1, 0, 0, FTrace) EXCEPT !.kstack_sz = 8 * (MAX_KSTACK_DEPTH + 1)]}

\* result containers around the edges of err_names[]: 0, a listed code with
\* either sign (12, 133, 512, 530), the unlisted codes inside the table
\* (41, 58, 134, 511, 520), the first value past the table (531), and values
\* whose magnitude needs more than the low word
ResVals ==
    {LZero, L(-1, -1), L(-1, -12), L(0, 12), L(-1, -41), L(-1, -58), L(-1, -133),
     L(-1, -134), L(-1, -511), L(-1, -512), L(0, 530), L(-1, -520), L(-1, -530),
     L(-1, -531), L(0, 531), L(0, 1000), L(4660, -22), L(-2, -12), L(1, 12)}

\* result records: functions with and without sign extension, every result
\* container of ResVals, frames pending and finished
ResRecords ==
    {MkRec(TRUE, d, md, 0, 0, ids, <<raw>>, <<0>>, <<LZero>>, FTrace) :
        d \in 0 .. 1, md \in 1 .. 2, ids \in {<<2, 1>>, <<0, 3>>}, raw \in ResVals}

\* merge records: logical stacks of every length up to the capacity, kernel
\* traces of every length up to MaxTrace over unresolved and matching
\* frames, and the two call chains above
MergeRecords ==
    LET traces == SeqsUpTo({A_unres, A_sys, A_alloc3f}, MaxTrace) \cup {FTrace, BridgeTrace}
    IN  {MkRec(TRUE, 0, md, 0, 0, ids, <<L(-1, -12)>>, <<0>>, <<LZero>>, tr) :
            md \in 0 .. MAX_FSTACK_DEPTH, ids \in {<<0, 3, 1>>, <<3, 3, 0>>}, tr \in traces}

\* what a load from past the end of fstack[] can yield
StrayFitems == {ZeroFitem,
                [name |-> N_kfree, res |-> L(-1, -12), lat |-> 1, finished |-> TRUE,
                 stitched |-> FALSE]}

(***************************************************************************)
(* handle_event, one action per step of the callback                       *)
(***************************************************************************)
\* (a variant that does not look at the filtered mark)
KernelOnly_nofiltered(fitem, kitem) ==
    \/ kitem.ksym = NoSym
    \/ ~StrEq(kitem.ksym.name, fitem.name)

\* the test of lines 676-677: the kernel frame is printed alone
KernelOnly(fitem, kitem) ==
    \/ kitem.ksym = NoSym
    \/ kitem.filtered
    \/ ~StrEq(kitem.ksym.name, fitem.name)

\* Lines 623-658: the ring buffer hands a record to handle_event, which
\* returns at once for a non-error record and otherwise runs filter_fstack
\* and filter_kstack on the static buffers and starts the merge.  A store
\* past the end of a buffer is undefined behaviour: the process dies, or it
\* goes on with the stray stores lost (and, for kstack[], with an arbitrary
\* frame count).
HandleEvent(R, cap) ==
    /\ UNCHANGED <<line, line_off>>
    /\ pc = "poll"
    /\ delivered < cap
    /\ \E rec \in R :
         LET f == filter_fstack(fstack, rec)
             k == filter_kstack(kstack, rec, verbose)
             ub == rec.is_err /\ (f.oob \/ k.oob)
         IN  \E outcome \in (IF ub THEN {"crash", "survive"} ELSE {"ok"}) :
             \E kn \in (IF ub /\ k.oob /\ outcome = "survive"
                          THEN 0 .. MAX_KSTACK_DEPTH ELSE {k.p}) :
               /\ s' = rec
               /\ delivered' = delivered + 1
               /\ out' = <<>>
               /\ done_out' = FALSE
               /\ UNCHANGED <<exiting, verbose>>
               /\ IF ~rec.is_err
                  THEN /\ pc' = "poll"
                       /\ consumed' = consumed + 1
                       /\ diag' = FALSE
                       /\ saved_read' = FALSE
                       /\ UNCHANGED <<err, fstack, kstack, fstack_n, kstack_n, i, j, oob>>
                  ELSE IF outcome = "crash"
                  THEN /\ pc' = "crashed"
                       /\ oob' = TRUE
                       /\ diag' = FALSE
                       /\ saved_read' = f.saved_read
                       /\ UNCHANGED <<err, fstack, kstack, fstack_n, kstack_n, i, j, consumed>>
                  ELSE IF f.cnt < 0 \/ k.p < 0
                  THEN \* FAILURE DURING FILTERING ...: return -1, which
                       \* ring_buffer__poll hands to main as its error
                       /\ pc' = "cleanup"
                       /\ err' = -1
                       /\ diag' = TRUE
                       /\ saved_read' = f.saved_read
                       /\ fstack' = f.r
                       /\ UNCHANGED <<kstack, fstack_n, kstack_n, i, j, oob, consumed>>
                  ELSE /\ pc' = "merge"
                       /\ fstack' = f.r
                       /\ kstack' = k.r
                       /\ fstack_n' = f.cnt
                       /\ kstack_n' = kn
                       /\ i' = 0
                       /\ j' = 0
                       /\ oob' = (oob \/ ub)
                       /\ diag' = FALSE
                       /\ saved_read' = f.saved_read
                       /\ UNCHANGED <<err, consumed>>

\* one iteration of the while loop of lines 659-688
MergeStep ==
    /\ UNCHANGED <<line, line_off>>
    /\ pc = "merge"
    /\ i < fstack_n
    /\ \E fitem \in (IF i < MAX_FSTACK_DEPTH THEN {fstack[i]} ELSE StrayFitems) :
         LET kitem == IF j < kstack_n THEN kstack[j] ELSE NoItem
         IN  IF kitem = NoItem
             THEN /\ out' = Append(out, print_item(fitem, NoItem, verbose))
                  /\ i' = i + 1
                  /\ j' = j
             ELSE IF KernelOnly(fitem, kitem)
             THEN /\ out' = Append(out, print_item(NoItem, kitem, verbose))
                  /\ i' = i
                  /\ j' = j + 1
             ELSE /\ out' = Append(out, print_item(fitem, kitem, verbose))
                  /\ i' = i + 1
                  /\ j' = j + 1
    /\ UNCHANGED <<pc, exiting, err, verbose, delivered, s, fstack, kstack, fstack_n,
                   kstack_n, done_out, diag, oob, saved_read, consumed>>

\* one iteration of the for loop of lines 690-692
FlushStep ==
    /\ UNCHANGED <<line, line_off>>
    /\ pc = "merge"
    /\ ~(i < fstack_n)
    /\ j < kstack_n
    /\ out' = Append(out, print_item(NoItem, kstack[j], verbose))
    /\ j' = j + 1
    /\ UNCHANGED <<pc, exiting, err, verbose, delivered, s, fstack, kstack, fstack_n,
                   kstack_n, i, done_out, diag, oob, saved_read, consumed>>

\* lines 694-696: the closing blank lines, return 0 to ring_buffer__poll
HandleEventReturn ==
    /\ UNCHANGED <<line, line_off>>
    /\ pc = "merge"
    /\ ~(i < fstack_n)
    /\ ~(j < kstack_n)
    /\ done_out' = TRUE
    /\ pc' = "poll"
    /\ consumed' = consumed + 1
    /\ UNCHANGED <<exiting, err, verbose, delivered, s, fstack, kstack, fstack_n,
                   kstack_n, i, j, out, diag, oob, saved_read>>

(***************************************************************************)
(* main: the poll loop (lines 947-964) and sig_handler                     *)
(***************************************************************************)
\* sig_handler: SIGINT arrives, at any point of the run after signal()
SigInt ==
    /\ UNCHANGED <<line, line_off>>
    /\ pc \notin {"start", "done", "crashed"}
    /\ ~exiting
    /\ exiting' = TRUE
    /\ UNCHANGED <<pc, err, verbose, delivered, s, fstack, kstack, fstack_n, kstack_n,
                   i, j, out, done_out, diag, oob, saved_read, consumed>>

\* (a variant that never looks at the flag)
LoopContinues_always(ex) == TRUE

\* while (!exiting)
LoopContinues(ex) == ~ex

\* the loop test, and the call of ring_buffer__poll when it passes
LoopTest ==
    /\ UNCHANGED <<line, line_off>>
    /\ pc = "loop"
    /\ IF LoopContinues(exiting)
       THEN pc' = "poll" /\ consumed' = 0
       ELSE pc' = "cleanup" /\ consumed' = consumed
    /\ UNCHANGED <<exiting, err, verbose, delivered, s, fstack, kstack, fstack_n,
                   kstack_n, i, j, out, done_out, diag, oob, saved_read>>

\* ring_buffer__poll returns the number of records it consumed (0 on timeout)
PollReturn ==
    /\ UNCHANGED <<line, line_off>>
    /\ pc = "poll"
    /\ err' = consumed
    /\ pc' = "loop"
    /\ UNCHANGED <<exiting, verbose, delivered, s, fstack, kstack, fstack_n, kstack_n,
                   i, j, out, done_out, diag, oob, saved_read, consumed>>

\* the wait inside ring_buffer__poll is interrupted by the signal: -EINTR,
\* which main turns into err = 0 and cleanup
PollInterrupted ==
    /\ UNCHANGED <<line, line_off>>
    /\ pc = "poll"
    /\ exiting
    /\ consumed = 0
    /\ LET ret == -EINTR
       IN  err' = IF ret = -EINTR THEN 0 ELSE ret
    /\ pc' = "cleanup"
    /\ UNCHANGED <<exiting, verbose, delivered, s, fstack, kstack, fstack_n, kstack_n,
                   i, j, out, done_out, diag, oob, saved_read, consumed>>

\* the wait fails with another error: "Error polling perf buffer", cleanup
PollError ==
    /\ UNCHANGED <<line, line_off>>
    /\ pc = "poll"
    /\ consumed = 0
    /\ \E ret \in {-(EINTR + 5), -1} :
         err' = IF ret = -EINTR THEN 0 ELSE ret
    /\ pc' = "cleanup"
    /\ UNCHANGED <<exiting, verbose, delivered, s, fstack, kstack, fstack_n, kstack_n,
                   i, j, out, done_out, diag, oob, saved_read, consumed>>

\* lines 796-925: argp_parse has returned 0 (err = 0); the attacher is
\* created, configured, prepared, loaded and attached.  mass_attacher__new
\* returning NULL jumps to cleanup with err untouched; a failing step jumps
\* to cleanup with the step's error code in err.
Attach ==
    /\ UNCHANGED <<line, line_off>>
    /\ pc = "start"
    /\ \E outcome \in {"att_null", "step_fails", "ok"} :
         /\ pc' = IF outcome = "ok" THEN "attached" ELSE "cleanup"
         /\ err' = IF outcome = "step_fails" THEN -(EINTR + 18) ELSE 0
    /\ UNCHANGED <<exiting, verbose, delivered, s, fstack, kstack, fstack_n, kstack_n,
                   i, j, out, done_out, diag, oob, saved_read, consumed>>

\* lines 927-945: the handler is installed, the symbol table is loaded and
\* the ring buffer is created.  ksyms__load returning NULL prints a message
\* and jumps to cleanup with err as the attach left it (0);
\* ring_buffer__new returning NULL sets err = -1 first.
Setup ==
    /\ UNCHANGED <<line, line_off>>
    /\ pc = "attached"
    /\ \E outcome \in {"ksyms_null", "rb_null", "ok"} :
         /\ pc' = IF outcome = "ok" THEN "loop" ELSE "cleanup"
         /\ err' = IF outcome = "rb_null" THEN -1 ELSE err
    /\ UNCHANGED <<exiting, verbose, delivered, s, fstack, kstack, fstack_n, kstack_n,
                   i, j, out, done_out, diag, oob, saved_read, consumed>>

\* the exit status the parent sees for main's return value: its low 8 bits
ExitStatus(ret) == ret % 256

\* cleanup: "Detaching, be patient...", the frees, return -err
Cleanup ==
    /\ UNCHANGED <<line, line_off>>
    /\ pc = "cleanup"
    /\ pc' = "done"
    /\ UNCHANGED <<exiting, err, verbose, delivered, s, fstack, kstack, fstack_n,
                   kstack_n, i, j, out, done_out, diag, oob, saved_read, consumed>>

(***************************************************************************)
(* Specifications                                                          *)
(***************************************************************************)
\* main has installed the handler and is about to test the loop condition
Init ==
    /\ pc = "loop"
    /\ exiting = FALSE
    /\ err = 0
    /\ verbose \in BOOLEAN
    /\ delivered = 0
    /\ s = NoRecord
    /\ fstack = [k \in FIdx |-> ZeroFitem]
    /\ kstack = [k \in KIdx |-> ZeroKitem]
    /\ fstack_n = 0
    /\ kstack_n = 0
    /\ i = 0
    /\ j = 0
    /\ out = <<>>
    /\ done_out = FALSE
    /\ diag = FALSE
    /\ oob = FALSE
    /\ saved_read = FALSE
    /\ consumed = 0
    /\ line = NullStr
    /\ line_off = 0

Callback == MergeStep \/ FlushStep \/ HandleEventReturn
MainLoop == LoopTest \/ PollReturn \/ PollInterrupted \/ PollError \/ Cleanup

\* the whole program on well-formed records
Next == SigInt \/ MainLoop \/ HandleEvent(Records, MaxEvents) \/ Callback
Spec == Init /\ [][Next]_vars

\* the scheduler runs the main thread as long as it can take a step, and a
\* poll with a timeout always returns
LiveSpec == Spec /\ WF_vars(MainLoop) /\ WF_vars(Callback)

\* the whole program on records of any content
NextRaw == SigInt \/ MainLoop \/ HandleEvent(RawRecords, MaxEvents) \/ Callback
SpecRaw == Init /\ [][NextRaw]_vars

\* one event, the logical stack drawn from FRecords
NextFstack == LoopTest \/ HandleEvent(FRecords, 1) \/ Callback
SpecFstack == Init /\ [][NextFstack]_vars

\* one event, the kernel stack drawn from KRecords
NextKstack == LoopTest \/ HandleEvent(KRecords, 1) \/ Callback
SpecKstack == Init /\ [][NextKstack]_vars

\* one event, the results drawn from ResRecords
NextResult == LoopTest \/ HandleEvent(ResRecords, 1) \/ Callback
SpecResult == Init /\ [][NextResult]_vars

\* one event, the two stacks drawn from MergeRecords; the callback runs to
\* its end once ring_buffer__poll has called it
NextMerge == LoopTest \/ HandleEvent(MergeRecords, 1) \/ Callback
SpecMerge == Init /\ [][NextMerge]_vars
LiveMerge == SpecMerge /\ WF_vars(Callback)

\* the whole program from the entry of main (arguments parsed)
InitMain ==
    /\ pc = "start"
    /\ exiting = FALSE
    /\ err = 0
    /\ verbose \in BOOLEAN
    /\ delivered = 0
    /\ s = NoRecord
    /\ fstack = [k \in FIdx |-> ZeroFitem]
    /\ kstack = [k \in KIdx |-> ZeroKitem]
    /\ fstack_n = 0
    /\ kstack_n = 0
    /\ i = 0
    /\ j = 0
    /\ out = <<>>
    /\ done_out = FALSE
    /\ diag = FALSE
    /\ oob = FALSE
    /\ saved_read = FALSE
    /\ consumed = 0
    /\ line = NullStr
    /\ line_off = 0

NextMain == Attach \/ Setup \/ SigInt \/ MainLoop \/ HandleEvent(Records, MaxEvents) \/ Callback
SpecMain == InitMain /\ [][NextMain]_vars

\* print_item lines 608-609 for one symbolized frame: addr2line has given
\* the path, line_off is computed and the path is printed from there
Symbolize ==
    /\ pc = "symbolized"
    /\ line_off' = detect_linux_src_loc(line)
    /\ pc' = "printed"
    /\ UNCHANGED <<exiting, err, verbose, delivered, s, fstack, kstack, fstack_n,
                   kstack_n, i, j, out, done_out, diag, oob, saved_read, consumed, line>>

InitSrcLoc ==
    /\ pc = "symbolized"
    /\ exiting = FALSE
    /\ err = 0
    /\ verbose = FALSE
    /\ delivered = 0
    /\ s = NoRecord
    /\ fstack = [k \in FIdx |-> ZeroFitem]
    /\ kstack = [k \in KIdx |-> ZeroKitem]
    /\ fstack_n = 0
    /\ kstack_n = 0
    /\ i = 0
    /\ j = 0
    /\ out = <<>>
    /\ done_out = FALSE
    /\ diag = FALSE
    /\ oob = FALSE
    /\ saved_read = FALSE
    /\ consumed = 0
    /\ line \in Paths
    /\ line_off = 0

NextSrcLoc == Symbolize
SpecSrcLoc == InitSrcLoc /\ [][NextSrcLoc]_vars

(***************************************************************************)
(* Properties                                                              *)
(***************************************************************************)
HasFitem(ln) == ln.fitem # NoItem
\* the printed lines that carry a logical frame: the k-th is frame k - 1
FLines == SelectSeq(out, HasFitem)
\* an error record has been handed to handle_event and the process lives
Handled == s.is_err /\ pc # "crashed"

\* C1: for every error record handled, whatever was handled before it, the
\* primary frame at position pos has finished = (pos >= depth); a frame
\* with pos < depth is printed with the pending marker, a frame with
\* pos >= depth with the latency func_lat[pos].
C1_FinishedFromCurrentRecord ==
    Handled =>
        /\ \A pos \in 0 .. (s.max_depth - 1) : fstack[pos].finished = (pos >= s.depth)
        /\ \A k \in 1 .. Len(FLines) :
              k - 1 < s.max_depth =>
                  /\ (FLines[k].result.kind = "pending") = (k - 1 < s.depth)
                  /\ (k - 1 >= s.depth =>
                         FLines[k].result.lat_us = CDiv(s.func_lat[k - 1], 1000))

\* the same statement for the first record the process handles
C1_FirstEventOnly == delivered <= 1 => C1_FinishedFromCurrentRecord

\* C2: a record whose max_depth (or stitched range) or kstack_sz exceeds the
\* capacities is detected before a buffer is indexed: no store past the end
\* of fstack[] or kstack[], a diagnostic, no frame printed, and the process
\* goes on polling.
C2_OversizeRecordDropped ==
    (s.is_err /\ ~Fits(s)) =>
        /\ ~oob
        /\ diag
        /\ out = <<>>
        /\ pc \notin {"crashed", "merge"}

\* the frame the code is to build from position pos of the primary arrays
\* (finished left aside) and from position pos of the saved arrays
WantSignExt(id, raw) ==
    IF FUNC_NEEDS_SIGN_EXT \in func_flags(id)
    THEN L(IF raw.lo < 0 THEN -1 ELSE 0, raw.lo) ELSE raw
IsPrimaryFrame(item, rec, pos) ==
    /\ item.name = func_name(rec.func_ids[pos])
    /\ item.lat = rec.func_lat[pos]
    /\ item.res = WantSignExt(rec.func_ids[pos], rec.func_res[pos])
    /\ ~item.stitched
IsSavedFrame(item, rec, pos) ==
    /\ item.name = func_name(rec.saved_ids[pos])
    /\ item.lat = rec.saved_lat[pos]
    /\ item.res = WantSignExt(rec.saved_ids[pos], rec.saved_res[pos])
    /\ item.stitched
    /\ item.finished

\* C3: for every record (that fits the buffers) with max_depth + 1 #
\* saved_depth, filter_fstack returns exactly max_depth frames, the primary
\* positions 0 .. max_depth-1 in order, none marked stitched, and the saved
\* arrays are not read.
C3_UnstitchedLength ==
    (Handled /\ s.max_depth + 1 # s.saved_depth) =>
        /\ fstack_n = s.max_depth
        /\ \A pos \in 0 .. (fstack_n - 1) : IsPrimaryFrame(fstack[pos], s, pos)
        /\ ~saved_read

\* C3 witness: a record with saved fields set that are not the seam
C3_Witness ==
    /\ Handled
    /\ pc = "merge"
    /\ s.max_depth = 2
    /\ s.saved_depth = 2
    /\ s.saved_max_depth = 3
    /\ fstack_n = 2

Max0(x) == IF x > 0 THEN x ELSE 0

\* C4 as stated: for every record with max_depth + 1 = saved_depth the
\* length is max_depth + (saved_max_depth - saved_depth + 1), the frames
\* below max_depth are not stitched and those from max_depth on are the
\* saved positions saved_depth-1 .. saved_max_depth-1, stitched and finished.
C4_StitchedLengthAsStated ==
    (Handled /\ s.max_depth + 1 = s.saved_depth) =>
        /\ fstack_n = s.max_depth + (s.saved_max_depth - s.saved_depth + 1)
        /\ \A pos \in 0 .. (s.max_depth - 1) : ~fstack[pos].stitched
        /\ \A idx \in s.max_depth .. (fstack_n - 1) :
              IsSavedFrame(fstack[idx], s, s.saved_depth - 1 + (idx - s.max_depth))

\* C4, amended: the length is max_depth + max(0, saved_max_depth -
\* saved_depth + 1) (a record with saved_max_depth < saved_depth - 1 adds no
\* frame); the rest as stated.
C4_StitchedLength ==
    (Handled /\ s.max_depth + 1 = s.saved_depth) =>
        /\ fstack_n = s.max_depth + Max0(s.saved_max_depth - s.saved_depth + 1)
        /\ \A pos \in 0 .. (s.max_depth - 1) : ~fstack[pos].stitched
        /\ \A idx \in s.max_depth .. (fstack_n - 1) :
              IsSavedFrame(fstack[idx], s, s.saved_depth - 1 + (idx - s.max_depth))

\* C4 witness: a stitched record that appends two saved frames
C4_Witness ==
    /\ Handled
    /\ pc = "merge"
    /\ s.max_depth = 1
    /\ s.saved_depth = 2
    /\ s.saved_max_depth = 3
    /\ fstack_n = 3
    /\ fstack[2].stitched

\* the id and the raw result container behind the frame at index idx
FrameId(rec, idx) ==
    IF idx < rec.max_depth THEN rec.func_ids[idx]
    ELSE rec.saved_ids[rec.saved_depth - 1 + (idx - rec.max_depth)]
FrameRaw(rec, idx) ==
    IF idx < rec.max_depth THEN rec.func_res[idx]
    ELSE rec.saved_res[rec.saved_depth - 1 + (idx - rec.max_depth)]

\* the first half of C9: under FUNC_NEEDS_SIGN_EXT a container whose low
\* word is negative yields a negative result, the sign extension of the low
\* word, in both segments
C9_SignExtension ==
    Handled =>
        \A idx \in 0 .. (fstack_n - 1) :
            (FUNC_NEEDS_SIGN_EXT \in func_flags(FrameId(s, idx)) /\ FrameRaw(s, idx).lo < 0) =>
                /\ LIsNeg(fstack[idx].res)
                /\ fstack[idx].res = L(-1, FrameRaw(s, idx).lo)

\* C9: under FUNC_NEEDS_SIGN_EXT a container whose low 32 bits are a
\* negative int yields a result < 0 equal to the sign extension of the low
\* word, whatever the upper word, in both segments; for a FUNC_CANT_FAIL
\* function the same raw bits are never printed with a decoded error name.
C9_SignExtAndCantFail ==
    /\ C9_SignExtension
    /\ Handled =>
        \A k \in 1 .. Len(FLines) :
            (FUNC_CANT_FAIL \in func_flags(FrameId(s, k - 1)) /\ FrameRaw(s, k - 1).lo < 0) =>
                FLines[k].result.kind # "errname"

\* C5: whenever a logical frame and a kernel frame are printed on one line,
\* the kernel frame is resolved, is not marked filtered, and its symbol name
\* is the logical frame's function name.
C5_MergeAlignment ==
    \A k \in 1 .. Len(out) :
        (out[k].fitem # NoItem /\ out[k].kitem # NoItem) =>
            /\ out[k].kitem.ksym # NoSym
            /\ ~out[k].kitem.filtered
            /\ out[k].kitem.ksym.name = out[k].fitem.name

\* C5 witness: verbose mode, a filtered frame of the logical frame's name
\* was printed alone and the real frame was then printed with the logical one
C5_Witness ==
    /\ verbose
    /\ \E a, b \in 1 .. Len(out) :
          /\ a < b
          /\ out[a].fitem = NoItem
          /\ out[a].kitem.filtered
          /\ out[b].fitem # NoItem
          /\ out[b].kitem # NoItem
          /\ out[a].kitem.ksym = out[b].kitem.ksym

\* the raw trace of the record in natural call order (outermost first)
RawN(rec) == Max0(CDiv(rec.kstack_sz, 8))
OuterFirst(rec) == [k \in 1 .. RawN(rec) |-> rec.kstack[RawN(rec) - k]]
Resolved(tr) == [k \in 1 .. Len(tr) |->
                    [addr |-> tr[k], ksym |-> ksyms__map_addr(tr[k]), filtered |-> FALSE]]
\* the frames filter_kstack returned
KOut == [k \in 1 .. kstack_n |-> kstack[k - 1]]

\* an instrumentation frame, and the head of a trampoline bridge
InstrFrame(fr) ==
    /\ fr.ksym # NoSym
    /\ (is_bpf_tramp(fr) \/ is_bpf_prog(fr) \/ fr.ksym.name = N_raw_tp)
BridgeHeadAt(fs, k) ==
    /\ k + 2 <= Len(fs)
    /\ fs[k].ksym # NoSym
    /\ is_bpf_tramp(fs[k + 1])
    /\ fs[k + 2].ksym = fs[k].ksym
    /\ fs[k].addr = fs[k].ksym.addr + FTRACE_OFFSET
DroppedAt(fs, k) == InstrFrame(fs[k]) \/ BridgeHeadAt(fs, k)
RECURSIVE KeptFrom(_, _)
KeptFrom(fs, k) ==
    IF k > Len(fs) THEN <<>>
    ELSE (IF DroppedAt(fs, k) THEN <<>> ELSE <<fs[k]>>) \o KeptFrom(fs, k + 1)
MarkedAll(fs) == [k \in 1 .. Len(fs) |-> [fs[k] EXCEPT !.filtered = DroppedAt(fs, k)]]

\* C6: filter_kstack never fails; its frames are in outermost-first order, a
\* subsequence of the reversed trace.  Non-verbose: exactly the frames that
\* are neither an instrumentation frame nor the head of a trampoline bridge
\* are kept, each with its own address and symbol and filtered = FALSE.
\* Verbose: all frames are kept and exactly those are marked filtered.
C6_FilterKstack ==
    Handled =>
        /\ kstack_n >= 0
        /\ KOut = IF verbose THEN MarkedAll(Resolved(OuterFirst(s)))
                  ELSE KeptFrom(Resolved(OuterFirst(s)), 1)

\* C6 witness: non-verbose, a trace of four frames of which an unresolved
\* frame and one more are kept and two are dropped
C6_Witness ==
    /\ Handled
    /\ ~verbose
    /\ RawN(s) = 4
    /\ kstack_n = 2
    /\ kstack[0].ksym = NoSym
    /\ kstack[1].addr = A_alloc3f

\* C7 as stated: the outermost-first trace [bpf_map_alloc_percpu+0x3f,
\* bpf_trampoline_6442494949_0+0x6d, bpf_map_alloc_percpu+0x5] yields the
\* single frame bpf_map_alloc_percpu+0x3f in non-verbose mode and three
\* frames, the first marked filtered, in verbose mode.
C7_BridgeScenarioAsStated ==
    (Handled /\ OuterFirst(s) = <<A_alloc3f, A_tramp, A_alloc5>>) =>
        IF ~verbose
        THEN /\ kstack_n = 1
             /\ kstack[0].addr = A_alloc3f
        ELSE /\ kstack_n = 3
             /\ kstack[0].filtered

\* C7, amended: the outermost-first trace [bpf_map_alloc_percpu+0x5,
\* bpf_trampoline_6442494949_0+0x6d, bpf_map_alloc_percpu+0x3f] yields the
\* single frame bpf_map_alloc_percpu+0x3f in non-verbose mode and three
\* frames, the first (and the trampoline) marked filtered, in verbose mode.
C7_BridgeScenario ==
    (Handled /\ OuterFirst(s) = <<A_alloc5, A_tramp, A_alloc3f>>) =>
        IF ~verbose
        THEN /\ kstack_n = 1
             /\ kstack[0] = [addr |-> A_alloc3f, filtered |-> FALSE,
                             ksym |-> Sym(N_map_alloc, SymAddr(N_map_alloc))]
        ELSE /\ kstack_n = 3
             /\ <<kstack[0].addr, kstack[1].addr, kstack[2].addr>>
                    = <<A_alloc5, A_tramp, A_alloc3f>>
             /\ kstack[0].filtered
             /\ kstack[1].filtered
             /\ ~kstack[2].filtered

\* C7 witness: the scenario's trace has been filtered in non-verbose mode
C7_Witness ==
    /\ Handled
    /\ ~verbose
    /\ pc = "merge"
    /\ OuterFirst(s) = <<A_alloc5, A_tramp, A_alloc3f>>
    /\ kstack_n = 1

\* C8: the repair pass run again on the frames filter_kstack returned gives
\* the same frames: same length, same order, same filtered marks.
C8_RepairIdempotent ==
    Handled =>
        LET again == RepairPass(kstack, kstack_n, verbose)
        IN  /\ again.p = kstack_n
            /\ \A k \in 0 .. (kstack_n - 1) : again.r[k] = kstack[k]

\* C8 witness: a first pass that dropped a bridge and left two frames of the
\* same symbol, the first at the ftrace offset
C8_Witness ==
    /\ Handled
    /\ ~verbose
    /\ RawN(s) = 4
    /\ kstack_n = 2
    /\ kstack[0].addr = A_alloc5
    /\ kstack[1].addr = A_alloc3f

\* the event of the record in s has been printed whole (or was no error)
EventComplete == s.is_err => (done_out \/ diag)

\* C10: once exiting is set (or the poll returns the interrupt code) no
\* further poll is issued after the current one returns; a callback in
\* flight runs to completion, so no event is printed in part; a record is
\* handed to handle_event only when the previous event is complete; and the
\* program eventually reaches cleanup and ends.
C10_InterruptExitsCleanly ==
    /\ [][(exiting /\ pc = "loop") => pc' = "cleanup"]_vars
    /\ [][(pc = "poll" /\ pc' = "cleanup") => (err' <= 0 /\ consumed = 0)]_vars
    /\ [][pc = "merge" => pc' \in {"merge", "poll"}]_vars
    /\ [][delivered' # delivered => (pc = "poll" /\ EventComplete)]_vars
    /\ [](pc \in {"loop", "poll", "cleanup", "done"} => EventComplete)
    /\ (exiting ~> pc = "done")

\* C10 witness: the interrupt came while a callback was running, its event
\* was printed whole, the poll returned its count and the program ended
C10_Witness ==
    /\ pc = "done"
    /\ exiting
    /\ s.is_err
    /\ done_out
    /\ Len(out) > 0
    /\ err > 0

\* the result is a negative integer whose absolute value has a name
NegNamed(r) == r.hi = -1 /\ r.lo < 0 /\ (-r.lo) \in ErrNamed
\* the result is a positive integer that has a name
PosNamed(r) == r.hi = 0 /\ r.lo > 0 /\ r.lo \in ErrNamed
\* the printed lines of finished logical frames
FinishedLines == SelectSeq(out, LAMBDA ln : ln.fitem # NoItem /\ ln.fitem.finished)

\* C11: a finished frame's result is printed as [NULL] when it is 0, as
\* [-NAME] only when it is a negative integer whose absolute value has an
\* entry in err_names[], and as its literal signed decimal value in every
\* other case (positive results, unlisted codes, values beyond the table).
C11_ResultRendering ==
    Handled =>
        \A k \in 1 .. Len(FinishedLines) :
            LET ln == FinishedLines[k]
                r == ln.fitem.res
            IN  /\ LIsZero(r) => ln.result.kind = "null"
                /\ NegNamed(r) => (ln.result.kind = "errname" /\ ln.result.name = -r.lo)
                /\ (~LIsZero(r) /\ ~NegNamed(r)) =>
                       (ln.result.kind = "number" /\ ln.result.value = r)

\* what print_item does: the name is chosen by the absolute value, so a
\* positive result with a listed value is printed as [-NAME] too; 0 and
\* every value whose magnitude is unlisted are printed as the claim says
C11_NamedByAbsoluteValue ==
    Handled =>
        \A k \in 1 .. Len(FinishedLines) :
            LET ln == FinishedLines[k]
                r == ln.fitem.res
            IN  /\ LIsZero(r) => ln.result.kind = "null"
                /\ NegNamed(r) => (ln.result.kind = "errname" /\ ln.result.name = -r.lo)
                /\ PosNamed(r) => (ln.result.kind = "errname" /\ ln.result.name = r.lo)
                /\ (~LIsZero(r) /\ ~NegNamed(r) /\ ~PosNamed(r)) =>
                       (ln.result.kind = "number" /\ ln.result.value = r)

\* a finished frame with the positive result 12 has been printed
C11_PositiveListedPrinted ==
    /\ Handled
    /\ \E k \in 1 .. Len(FinishedLines) : FinishedLines[k].fitem.res = L(0, 12)

HasKitem(ln) == ln.kitem # NoItem
\* the printed lines that carry a kernel frame
KLines == SelectSeq(out, HasKitem)
\* the cursors when line k was printed: the frames printed before it
FCursorAt(k) == Len(SelectSeq(SubSeq(out, 1, k - 1), HasFitem))
KCursorAt(k) == Len(SelectSeq(SubSeq(out, 1, k - 1), HasKitem))

\* the lines printed so far are the first i logical frames and the first j
\* kernel frames, each sequence in its order
PrintedInOrder ==
    /\ i <= fstack_n
    /\ j <= kstack_n
    /\ Len(FLines) = i
    /\ \A k \in 1 .. Len(FLines) : FLines[k].fitem = fstack[k - 1]
    /\ Len(KLines) = j
    /\ \A k \in 1 .. Len(KLines) : KLines[k].kitem = kstack[k - 1]

\* why each line was printed the way it was
LineJustified(k) ==
    LET ln == out[k]
        fi == FCursorAt(k)
        kj == KCursorAt(k)
    IN  /\ (ln.fitem # NoItem \/ ln.kitem # NoItem)
        /\ ln.nokitem = (ln.kitem = NoItem)
        /\ (ln.fitem # NoItem /\ ln.kitem = NoItem) => kj = kstack_n
        /\ (ln.fitem = NoItem /\ ln.kitem # NoItem) =>
               \/ fi = fstack_n
               \/ ln.kitem.ksym = NoSym
               \/ ln.kitem.filtered
               \/ ln.kitem.ksym.name # fstack[fi].name
        /\ (ln.fitem # NoItem /\ ln.kitem # NoItem) =>
               /\ ln.kitem.ksym # NoSym
               /\ ~ln.kitem.filtered
               /\ ln.kitem.ksym.name = ln.fitem.name

\* C12: the merge loop of handle_event terminates, and prints every logical
\* frame exactly once and every kernel frame exactly once, each sequence in
\* its original order; a kernel frame is printed alone when it is
\* unresolved, filtered or of another name than the current logical frame,
\* or when the logical frames are exhausted; a logical frame is printed
\* alone, with the missing-kernel-frame marker, only when the kernel frames
\* are exhausted.
C12_MergeCompleteInOrder ==
    /\ [](Handled => (PrintedInOrder /\ \A k \in 1 .. Len(out) : LineJustified(k)))
    /\ [](done_out => (i = fstack_n /\ j = kstack_n))
    /\ (pc = "merge" ~> done_out)

\* C12 witness: a finished merge that printed a pair, a kernel frame alone
\* before the last logical frame, and a logical frame alone
C12_Witness ==
    /\ done_out
    /\ \E a, b, c \in 1 .. Len(out) :
          /\ a < b /\ b < c
          /\ out[a].fitem # NoItem /\ out[a].kitem # NoItem
          /\ out[b].fitem = NoItem /\ out[b].kitem # NoItem
          /\ out[c].fitem # NoItem /\ out[c].kitem = NoItem /\ out[c].nokitem

\* the step that ends the run is taken because of the interrupt: the loop
\* test finds the flag set, or the blocked poll returns -EINTR
EndsByInterrupt == (LoopTest /\ exiting) \/ PollInterrupted
\* the step that ends the run: the jump (or fall) to the cleanup label
EndsRun == pc # "cleanup" /\ pc' = "cleanup"

\* C13: the exit status of main is 0 exactly when the run ends by user
\* interruption (during the blocked poll or during a callback), and is
\* non-zero whenever it ends by a failure: attacher creation, the symbol
\* table, the ring buffer, or a polling error other than timeout/interrupt.
C13_ExitStatus ==
    /\ [][EndsRun => ((ExitStatus(-err') = 0) <=> EndsByInterrupt)]_vars
    /\ [][pc = "cleanup" => err' = err]_vars

\* what main returns: 0 for an interrupted blocked poll, for an interrupt
\* found by the loop test after a poll that consumed nothing, for a NULL
\* attacher and for a NULL symbol table; non-zero in every other case, an
\* interrupt found after a poll that consumed records included
C13_ExitStatusOfCode ==
    /\ [][EndsRun =>
            ((ExitStatus(-err') = 0) <=>
                \/ PollInterrupted
                \/ (LoopTest /\ exiting /\ err = 0)
                \/ (Attach /\ err' = 0)
                \/ (Setup /\ err' = 0))]_vars
    /\ [][pc = "cleanup" => err' = err]_vars

\* main has returned 0 without any interrupt: the attacher or the symbol
\* table could not be set up
C13_FailureExitsZero ==
    /\ pc = "done"
    /\ ~exiting
    /\ delivered = 0
    /\ ExitStatus(-err) = 0

\* main has returned non-zero after an interrupt during a callback
C13_InterruptExitsNonZero ==
    /\ pc = "done"
    /\ exiting
    /\ ~diag
    /\ done_out
    /\ err > 0
    /\ ExitStatus(-err) # 0

\* one of the known directory names occurs in the path at offset k
DirOccursAt(path, k) ==
    \E d \in 1 .. Len(linux_dirs) :
        /\ k + Len(linux_dirs[d]) <= Len(path)
        /\ SubSeq(path, k + 1, k + Len(linux_dirs[d])) = linux_dirs[d]
DirOffsets(path) == {k \in 0 .. Len(path) : DirOccursAt(path, k)}
\* the earliest offset at which any of the names occurs, 0 when none does
EarliestDir(path) ==
    IF DirOffsets(path) = {} THEN 0
    ELSE CHOOSE k \in DirOffsets(path) : \A m \in DirOffsets(path) : k <= m

\* C14: detect_linux_src_loc returns the offset of the earliest position in
\* the path at which any of the known directory names occurs, so the
\* printed location starts at the first such directory of the path; it
\* returns 0 when none of the names occurs.
C14_EarliestDirectory ==
    pc = "printed" => line_off = EarliestDir(line)

\* what the loop returns: an offset at which one of the names occurs, the
\* first occurrence of the first name of the table that occurs at all; 0
\* when none occurs
C14_FirstNameOfTable ==
    pc = "printed" =>
        IF DirOffsets(line) = {} THEN line_off = 0
        ELSE /\ line_off \in DirOffsets(line)
             /\ \E d \in 1 .. Len(linux_dirs) :
                   /\ line_off = strstr(line, linux_dirs[d])
                   /\ \A e \in 1 .. (d - 1) : strstr(line, linux_dirs[e]) = -1

\* drivers/net/x.c:7 has been printed as net/x.c:7
C14_InnerDirectoryPrinted ==
    /\ pc = "printed"
    /\ line = P_drivers \o P_net \o P_file
    /\ line_off = Len(P_drivers)

====
